---- MODULE Spec2Model ----
(***************************************************************************)
(* FormBuilder (src/src/FormBuilder.js) as a state machine.                *)
(*                                                                         *)
(* The builder's state is its CSRF token, the bound model and the array of *)
(* label names.  Every public method is one action; the action records the *)
(* call and what it returned (or the error it raised) in `last`.           *)
(*                                                                         *)
(* JavaScript values are tagged records: Nil stands for null and undefined *)
(* (the two are not told apart by `.isNil`), strings are sequences of      *)
(* one-character strings so that the regular-expression replacements and   *)
(* toUpperCase() are computed character by character.                      *)
(***************************************************************************)
EXTENDS Integers, Sequences, FiniteSets, TLC

VARIABLES csrfToken, model, labels, last

vars == <<csrfToken, model, labels, last>>

(***************************************************************************)
(* Bounds of the model.                                                    *)
(***************************************************************************)
MaxLabels == 1
MaxRange == 1

(***************************************************************************)
(* JavaScript values.                                                      *)
(***************************************************************************)
Nil == [t |-> "nil"]
Str(s) == [t |-> "str", v |-> s]
Num(n) == [t |-> "num", v |-> n]
Bool(b) == [t |-> "bool", v |-> b]
Arr(a) == [t |-> "arr", v |-> a]

\* x.isNil: true of null and of undefined, false of everything else.
isNil(x) == x.t = "nil"

\* Truthiness, as `a || b` and `if(a)` test it.
truthy(x) ==
    CASE x.t = "nil" -> FALSE
      [] x.t = "bool" -> x.v
      [] x.t = "num" -> x.v # 0
      [] x.t = "str" -> Len(x.v) > 0
      [] OTHER -> TRUE

\* x.length as the condition of token() tests it (0 and undefined are falsy).
hasLength(x) == x.t \in {"str", "arr"} /\ Len(x.v) > 0

(***************************************************************************)
(* Strings.                                                                *)
(***************************************************************************)
LowerChars == <<"a", "b", "c", "d", "e", "f", "g", "h", "i", "j", "k", "l", "m",
                "n", "o", "p", "q", "r", "s", "t", "u", "v", "w", "x", "y", "z">>
UpperChars == <<"A", "B", "C", "D", "E", "F", "G", "H", "I", "J", "K", "L", "M",
                "N", "O", "P", "Q", "R", "S", "T", "U", "V", "W", "X", "Y", "Z">>
DigitChars == <<"0", "1", "2", "3", "4", "5", "6", "7", "8", "9">>

Range(f) == {f[i] : i \in DOMAIN f}

LowerSet == Range(LowerChars)

UpperOf == [c \in LowerSet |-> UpperChars[CHOOSE i \in DOMAIN LowerChars : LowerChars[i] = c]]

upperChar(c) == IF c \in LowerSet THEN UpperOf[c] ELSE c

\* String.prototype.toUpperCase / toLocaleUpperCase on the characters modelled.
toUpperCase(s) == [i \in 1..Len(s) |-> upperChar(s[i])]

\* \w of a JavaScript regular expression.
WordChars == Range(LowerChars) \cup Range(UpperChars) \cup Range(DigitChars) \cup {"_"}

isWordChar(c) == c \in WordChars

\* s.replace(/c/, d): the first occurrence only (no g flag).
replaceFirstChar(s, c, d) ==
    IF \E i \in 1..Len(s) : s[i] = c
    THEN LET k == CHOOSE i \in 1..Len(s) : s[i] = c /\ \A j \in 1..(i - 1) : s[j] # c
         IN  [i \in 1..Len(s) |-> IF i = k THEN d ELSE s[i]]
    ELSE s

\* s.replace(/c/g, d) for a one-character pattern and replacement.
replaceAllChar(s, c, d) == [i \in 1..Len(s) |-> IF s[i] = c THEN d ELSE s[i]]

\* s.replace(/c/g, '') for a one-character pattern.
removeAllChar(s, c) == SelectSeq(s, LAMBDA x : x # c)

\* s.replace(/pat/g, '') for a literal pattern pat, scanning left to right.
RECURSIVE removeAllSub(_, _)
removeAllSub(s, pat) ==
    IF Len(s) < Len(pat) \/ Len(pat) = 0 THEN s
    ELSE IF SubSeq(s, 1, Len(pat)) = pat
         THEN removeAllSub(SubSeq(s, Len(pat) + 1, Len(s)), pat)
         ELSE <<s[1]>> \o removeAllSub(Tail(s), pat)

\* Number.prototype.toString for a natural number.
RECURSIVE natToString(_)
natToString(n) ==
    IF n < 10 THEN <<DigitChars[n + 1]>>
    ELSE natToString(n \div 10) \o <<DigitChars[(n % 10) + 1]>>

(***************************************************************************)
(* Objects: attribute maps (options) and bound models.                     *)
(***************************************************************************)
\* o[k] of a JavaScript object: undefined (Nil) when the key is missing.
get(o, k) == IF k \in DOMAIN o THEN o[k] ELSE Nil

\* o[k] = v
set(o, k, v) == [x \in (DOMAIN o) \cup {k} |-> IF x = k THEN v ELSE o[x]]

\* delete o[k]
delete(o, k) == [x \in (DOMAIN o) \ {k} |-> o[x]]

\* Object.assign(o, p)
assign(o, p) == [x \in (DOMAIN o) \cup (DOMAIN p) |-> IF x \in DOMAIN p THEN p[x] ELSE o[x]]

EmptyObject == [x \in {} |-> Nil]

\* A bound model: an object with properties and, when hasGetFormValue, a
\* getFormValue(key) method answering from `form`.
Obj(hasGetFormValue, props, form) ==
    [t |-> "obj", hasGetFormValue |-> hasGetFormValue, props |-> props, form |-> form]

(***************************************************************************)
(* Results of a call: a value, or the error the call raised.               *)
(***************************************************************************)
Ok(v) == [threw |-> "none", value |-> v]
Throw(e) == [threw |-> e, value |-> Nil]
ok(r) == r.threw = "none"

(***************************************************************************)
(* The HtmlBuilder collaborator (this.html).                               *)
(***************************************************************************)
\* html.attributes(options): the attributes that are rendered; an attribute
\* whose value is absent is omitted.
attributes(options) == [k \in {x \in DOMAIN options : ~isNil(options[x])} |-> options[k]]

\* html.entities(value): the escaped text.
entities(value) == [text |-> value, escaped |-> TRUE]

\* The text of a template literal that was not escaped.
raw(value) == [text |-> value, escaped |-> FALSE]

\* One rendered element: `<tag attrs>body</tag>`.
El(tag, attrs, body) == [tag |-> tag, attrs |-> attrs, body |-> body]

\* toHtmlString(html): the markup, a sequence of elements, marked as safe.
toHtmlString(html) == html

(***************************************************************************)
(* Old input (session support).                                            *)
(***************************************************************************)
old(name) == Nil

oldInputIsEmpty == TRUE

(***************************************************************************)
(* Value resolution.                                                       *)
(***************************************************************************)
_transformKey(key) ==
    removeAllChar(
        replaceAllChar(
            removeAllSub(replaceAllChar(key, ".", "_"), <<"[", " ", "]">>),
            "[", "."),
        "]")

\* key.replace(...) raises a TypeError when name is null, and reading
\* this.model.getFormValue raises one when this.model is null.
_getModelValueAttribute(name) ==
    IF isNil(name) \/ isNil(model) THEN Throw("TypeError")
    ELSE LET key == _transformKey(name.v)
         IN  IF model.hasGetFormValue THEN Ok(get(model.form, key))
             ELSE Ok(get(model.props, key))

\* Mutant: the bound model is consulted before the explicit value.
getValueAttribute_modelFirst(name, value) ==
    IF isNil(name) THEN Ok(value)
    ELSE IF ~isNil(old(name)) /\ name # Str(<<"_", "m", "e", "t", "h", "o", "d">>)
         THEN Ok(old(name))
    ELSE IF ~isNil(model) THEN _getModelValueAttribute(name)
    ELSE IF ~isNil(value) THEN Ok(value)
    ELSE Ok(Nil)

getValueAttribute(name, value) ==
    IF isNil(name) THEN Ok(value)
    ELSE IF ~isNil(old(name)) /\ name # Str(<<"_", "m", "e", "t", "h", "o", "d">>)
         THEN Ok(old(name))
    ELSE IF ~isNil(value) THEN Ok(value)
    ELSE IF ~isNil(model) THEN _getModelValueAttribute(name)
    ELSE Ok(Nil)

\* Mutant: a label's name is preferred to the explicit id.
getIdAttribute_labelFirst(name, attributes_) ==
    IF \E i \in DOMAIN labels : labels[i] = name THEN name
    ELSE IF ~isNil(get(attributes_, "id")) THEN get(attributes_, "id")
    ELSE Nil

getIdAttribute(name, attributes_) ==
    IF ~isNil(get(attributes_, "id")) THEN get(attributes_, "id")
    ELSE IF \E i \in DOMAIN labels : labels[i] = name THEN name
    ELSE Nil

(***************************************************************************)
(* Inputs.                                                                 *)
(***************************************************************************)
skipValueTypes == {"file", "password", "checkbox", "radio"}

input(type, name, value, options) ==
    LET opts1 == IF isNil(get(options, "name")) THEN set(options, "name", name) ELSE options
        id == getIdAttribute(name, opts1)
        val == IF type \notin skipValueTypes THEN getValueAttribute(name, value) ELSE Ok(value)
    IN  IF ~ok(val) THEN val
        ELSE Ok(toHtmlString(<<El("input",
                 attributes(assign(opts1, [type |-> Str(type), value |-> val.value, id |-> id])),
                 <<>>)>>))

hidden(name, value, options) == input("hidden", name, value, options)

token ==
    LET tok == IF isNil(csrfToken) \/ hasLength(csrfToken)
               THEN Str(<<"U", "N", "S", "U", "P", "P", "O", "R", "T", "E", "D">>)
               ELSE csrfToken
    IN  hidden(Str(<<"_", "t", "o", "k", "e", "n">>), tok, EmptyObject)

(***************************************************************************)
(* Form open / close.                                                      *)
(***************************************************************************)
reserved == {"method", "url", "route", "action", "files"}

spoofedMethods == {<<"D", "E", "L", "E", "T", "E">>, <<"P", "A", "T", "C", "H">>, <<"P", "U", "T">>}

GET == <<"G", "E", "T">>
POST == <<"P", "O", "S", "T">>

_getMethod(method) ==
    LET m == toUpperCase(method.v)
    IN  IF m # GET THEN Str(POST) ELSE Str(m)

\* The app.url collaborator: the URL it makes is kept symbolic.
urlOf(via, arg) == [t |-> "url", via |-> via, arg |-> arg]

_getUrlAction(options) == urlOf("make", options)

_getRouteAction(options) == urlOf("route", options)

_getAction(options) ==
    IF ~isNil(get(options, "url")) THEN _getUrlAction(get(options, "url"))
    ELSE IF ~isNil(get(options, "route")) THEN _getRouteAction(get(options, "route"))
    ELSE urlOf("current", Nil)

\* Mutant: the method is compared as written, without upper-casing it.
_getAppendage_caseSensitive(method) ==
    LET m == method.v
        spoofed == m \in spoofedMethods
        h == hidden(Str(<<"_", "m", "e", "t", "h", "o", "d">>), Str(m), EmptyObject)
        notGet == m # GET
        tk == token
    IN  IF spoofed /\ ~ok(h) THEN h
        ELSE IF notGet /\ ~ok(tk) THEN tk
        ELSE Ok((IF spoofed THEN h.value ELSE <<>>) \o (IF notGet THEN tk.value ELSE <<>>))

_getAppendage(method) ==
    LET m == toUpperCase(method.v)
        spoofed == m \in spoofedMethods
        h == hidden(Str(<<"_", "m", "e", "t", "h", "o", "d">>), Str(m), EmptyObject)
        notGet == m # GET
        tk == token
    IN  IF spoofed /\ ~ok(h) THEN h
        ELSE IF notGet /\ ~ok(tk) THEN tk
        ELSE Ok((IF spoofed THEN h.value ELSE <<>>) \o (IF notGet THEN tk.value ELSE <<>>))

open(options) ==
    LET method == IF truthy(get(options, "method")) THEN get(options, "method")
                  ELSE Str(<<"p", "o", "s", "t">>)
        attrs0 == [x \in {"method", "action", "accept-charset"} |->
                      CASE x = "method" -> _getMethod(method)
                        [] x = "action" -> _getAction(options)
                        [] OTHER -> Str(<<"U", "T", "F", "-", "8">>)]
        append == _getAppendage(method)
        opts1 == IF ~isNil(get(options, "files"))
                 THEN set(options, "enctype", Str(<<"m", "u", "l", "t", "i", "p", "a", "r", "t">>))
                 ELSE options
        attrs1 == assign(attrs0, [k \in (DOMAIN opts1) \ reserved |-> opts1[k]])
    IN  IF ~ok(append) THEN append
        ELSE Ok(toHtmlString(<<El("form", attributes(attrs1), <<>>)>> \o append.value))

close == Ok(toHtmlString(<<El("/form", EmptyObject, <<>>)>>))

(***************************************************************************)
(* Labels.                                                                 *)
(***************************************************************************)
\* /(\b[a-z\x00-\x7F])/gi: a character that follows a word boundary.
atWordBoundary(s, i) ==
    LET before == IF i = 1 THEN FALSE ELSE isWordChar(s[i - 1])
    IN  before # isWordChar(s[i])

_formatLabel(name, value) ==
    IF ~isNil(value) THEN value
    ELSE LET s == replaceFirstChar(name.v, "_", " ")
         IN  Str([i \in 1..Len(s) |-> IF atWordBoundary(s, i) THEN upperChar(s[i]) ELSE s[i]])

label(name, value, options, escapeHtml) ==
    LET opts == attributes(options)
        text == _formatLabel(name, value)
    IN  Ok(toHtmlString(<<El("label", set(opts, "for", name),
                             IF escapeHtml THEN entities(text) ELSE raw(text))>>))

(***************************************************************************)
(* Textarea.                                                               *)
(***************************************************************************)
\* s.split(/x/)
RECURSIVE split(_, _)
split(s, c) ==
    IF \E i \in 1..Len(s) : s[i] = c
    THEN LET k == CHOOSE i \in 1..Len(s) : s[i] = c /\ \A j \in 1..(i - 1) : s[j] # c
         IN  <<SubSeq(s, 1, k - 1)>> \o split(SubSeq(s, k + 1, Len(s)), c)
    ELSE <<s>>

\* x.toString(): a TypeError on null and undefined.
RECURSIVE joinStrings(_)
joinStrings(a) ==
    IF Len(a) = 0 THEN <<>>
    ELSE IF Len(a) = 1 THEN a[1]
    ELSE a[1] \o <<",">> \o joinStrings(Tail(a))

RECURSIVE toString(_)
toString(x) ==
    CASE x.t = "nil" -> Throw("TypeError")
      [] x.t = "str" -> Ok(x)
      [] x.t = "num" -> Ok(Str(natToString(x.v)))
      [] x.t = "bool" -> Ok(Str(IF x.v THEN <<"t", "r", "u", "e">> ELSE <<"f", "a", "l", "s", "e">>))
      [] x.t = "arr" ->
           Ok(Str(joinStrings([i \in 1..Len(x.v) |->
                     IF isNil(x.v[i]) THEN <<>> ELSE toString(x.v[i]).value.v])))
      [] OTHER -> Ok(Str(<<"[", "o", "b", "j", "e", "c", "t", "]">>))

_setQuickTextAreaSize(options) ==
    LET segments == split(get(options, "size").v, "x")
    IN  assign(options, [k \in {"cols", "rows"} |->
            IF k = "cols" THEN Str(segments[1])
            ELSE IF Len(segments) >= 2 THEN Str(segments[2]) ELSE Nil])

_setTextAreaSize(options) ==
    IF ~isNil(get(options, "size")) THEN _setQuickTextAreaSize(options)
    ELSE assign(options, [k \in {"cols", "rows"} |->
            IF truthy(get(options, k)) THEN get(options, k)
            ELSE IF k = "cols" THEN Num(50) ELSE Num(10)])

textarea(name, value, options) ==
    LET opts1 == IF isNil(get(options, "name")) THEN set(options, "name", name) ELSE options
        opts2 == _setTextAreaSize(opts1)
        opts3 == delete(set(opts2, "id", getIdAttribute(name, opts2)), "size")
        val == getValueAttribute(name, value)
        text == IF ok(val) THEN toString(val.value) ELSE val
    IN  IF ~ok(text) THEN text
        ELSE Ok(toHtmlString(<<El("textarea", attributes(opts3), entities(text.value))>>))

(***************************************************************************)
(* Select.                                                                 *)
(***************************************************************************)
\* `html = [ ]` assigns to a name that is declared nowhere; the file is an
\* ES module, hence strict code, where that assignment is a ReferenceError.
assignUndeclaredHtml == Throw("ReferenceError")

_getSelectedValue(value, selected) ==
    IF selected.t = "arr"
    THEN Ok(IF \E i \in DOMAIN selected.v : selected.v[i] = value
            THEN Str(<<"s", "e", "l", "e", "c", "t", "e", "d">>) ELSE Nil)
    ELSE LET v == toString(value)
             sel == toString(selected)
         IN  IF ~ok(v) THEN v
             ELSE IF ~ok(sel) THEN sel
             ELSE Ok(IF v.value = sel.value
                     THEN Str(<<"s", "e", "l", "e", "c", "t", "e", "d">>) ELSE Nil)

_option(display, value, selected) ==
    LET sel == _getSelectedValue(value, selected)
    IN  IF ~ok(sel) THEN sel
        ELSE Ok(toHtmlString(<<El("option",
                    attributes([k \in {"value", "selected"} |->
                                   IF k = "value" THEN value ELSE sel.value]),
                    entities(display))>>))

_placeholderOption(display, selected) ==
    LET sel == _getSelectedValue(Nil, selected)
    IN  IF ~ok(sel) THEN sel
        ELSE Ok(toHtmlString(<<El("option",
                    attributes([k \in {"value", "selected"} |->
                                   IF k = "value" THEN Str(<<>>) ELSE sel.value]),
                    entities(display))>>))

_optionGroup(list, label_, selected) == assignUndeclaredHtml

getSelectOption(display, value, selected) ==
    IF display.t \in {"arr", "obj"} THEN _optionGroup(display, value, selected)
    ELSE _option(display, value, selected)

select(name, list, selected, options) ==
    LET sel == getValueAttribute(name, selected)
    IN  IF ~ok(sel) THEN sel
        ELSE assignUndeclaredHtml

\* The object { begin: begin, ..., end: end } the loop builds.
rangeObject(begin, end) == [t |-> "obj", props |-> [i \in begin..end |-> Num(i)]]

selectRange(name, begin, end, selected, options) ==
    select(name, rangeObject(begin, end), selected, options)

(***************************************************************************)
(* Checkboxes and radio buttons.                                           *)
(***************************************************************************)
\* cast.boolean of the as-type package, on the values a model holds here.
castBoolean(x) == truthy(x)

_missingOldAndModel(name) ==
    IF ~isNil(old(name)) THEN Ok(FALSE)
    ELSE LET modelValue == _getModelValueAttribute(name)
         IN  IF ~ok(modelValue) THEN modelValue
             ELSE Ok(isNil(modelValue.value))

\* The value returned is what `if(checked)` of _checkable then tests.
_getCheckboxCheckedState(name, value, checked) ==
    IF ~oldInputIsEmpty /\ isNil(old(name)) THEN Ok(FALSE)
    ELSE LET missing == _missingOldAndModel(name)
             posted == getValueAttribute(name, checked)
         IN  IF ~ok(missing) THEN missing
             ELSE IF missing.value THEN Ok(truthy(checked))
             ELSE IF ~ok(posted) THEN posted
             ELSE IF posted.value.t = "arr"
                  THEN Ok(\E i \in DOMAIN posted.value.v : posted.value.v[i] = value)
             ELSE Ok(castBoolean(posted.value))

_getRadioCheckedState(name, value, checked) ==
    LET missing == _missingOldAndModel(name)
        resolved == getValueAttribute(name, Nil)
    IN  IF ~ok(missing) THEN missing
        ELSE IF missing.value THEN Ok(truthy(checked))
        ELSE IF ~ok(resolved) THEN resolved
        ELSE Ok(resolved.value = value)

_getCheckedState(type, name, value, checked) ==
    CASE type = "checkbox" -> _getCheckboxCheckedState(name, value, checked)
      [] type = "radio" -> _getRadioCheckedState(name, value, checked)
      [] OTHER -> LET resolved == getValueAttribute(name, Nil)
                  IN  IF ~ok(resolved) THEN resolved ELSE Ok(resolved.value = value)

_checkable(type, name, value, checked, options) ==
    LET state == _getCheckedState(type, name, value, checked)
    IN  IF ~ok(state) THEN state
        ELSE input(type, name, value,
                   IF state.value
                   THEN set(options, "checked", Str(<<"c", "h", "e", "c", "k", "e", "d">>))
                   ELSE options)

checkbox(name, value, checked, options) == _checkable("checkbox", name, value, checked, options)

radio(name, value, checked, options) ==
    _checkable("radio", name, IF isNil(value) THEN name ELSE value, checked, options)

(***************************************************************************)
(* The calls the model makes: field names, values, models and options.     *)
(***************************************************************************)
nFirstName == Str(<<"f", "_", "n">>)
nTwoWords == Str(<<"a", "_", "b", "_", "c">>)
nTags == Str(<<"t", "[", "]">>)
nNested == Str(<<"u", ".", "x", "[", "a", "]">>)

Names == {nFirstName, nTwoWords, nTags, nNested}

\* A plain object, and an object with a getFormValue(key) method.
mPlain ==
    Obj(FALSE,
        [k \in {<<"f", "_", "n">>, <<"t">>, <<"u", "_", "x", ".", "a">>} |->
            CASE k = <<"f", "_", "n">> -> Num(1)
              [] k = <<"t">> -> Arr(<<Num(1)>>)
              [] OTHER -> Num(7)],
        EmptyObject)
mForm ==
    Obj(TRUE,
        [k \in {<<"f", "_", "n">>} |-> Num(9)],
        [k \in {<<"f", "_", "n">>, <<"t">>, <<"a", "_", "b", "_", "c">>} |->
            CASE k = <<"f", "_", "n">> -> Num(0)
              [] k = <<"t">> -> Arr(<<Num(2)>>)
              [] OTHER -> Bool(TRUE)])

Models == {mPlain, mForm}

Tokens == {Nil, Str(<<"k">>)}

Methods == {<<>>, <<"g", "e", "t">>, <<"G", "E", "T">>, <<"p", "o", "s", "t">>,
            <<"p", "u", "t">>, <<"p", "a", "t", "c", "h">>,
            <<"D", "e", "l", "e", "t", "e">>}

OpenOptions ==
    {[k \in {"method"} |-> Str(m)] : m \in Methods}
    \cup {EmptyObject,
          [k \in {"method", "url"} |-> IF k = "method" THEN Str(<<"P", "U", "T">>) ELSE Str(<<"/", "i">>)],
          [k \in {"route", "files", "class"} |-> IF k = "files" THEN Bool(TRUE) ELSE Str(<<"r">>)]}

ModelOptions == {EmptyObject}

vText == Str(<<"v">>)
vId == Str(<<"i">>)

IdOptions == {EmptyObject, [k \in {"id"} |-> vId]}

TextareaOptions == {EmptyObject, [k \in {"size"} |-> Str(<<"4", "x", "5">>)]}

Call(op, args, res) == [op |-> op, args |-> args, res |-> res]

(***************************************************************************)
(* The state machine.                                                      *)
(***************************************************************************)
Init ==
    /\ csrfToken \in Tokens
    /\ model = Nil
    /\ labels = <<>>
    /\ last = Call("constructor", <<>>, Ok(Nil))

\* Mutant: open() empties the labels.
Open_resetsLabels ==
    \E options \in OpenOptions :
        /\ last' = Call("open", [options |-> options], open(options))
        /\ labels' = <<>>
        /\ UNCHANGED <<csrfToken, model>>

\* Mutant: open() unbinds the model.
Open_unbindsModel ==
    \E options \in OpenOptions :
        /\ last' = Call("open", [options |-> options], open(options))
        /\ model' = Nil
        /\ UNCHANGED <<csrfToken, labels>>

Open ==
    \E options \in OpenOptions :
        /\ last' = Call("open", [options |-> options], open(options))
        /\ UNCHANGED <<csrfToken, model, labels>>

\* model() and setModel() record the model they replaced.
Model ==
    \E m \in Models, options \in ModelOptions :
        /\ model' = m
        /\ UNCHANGED <<csrfToken, labels>>
        /\ last' = Call("model", [model |-> m, options |-> options, previous |-> model],
                        open(options)')

SetModel ==
    \E m \in Models \cup {Nil} :
        /\ model' = m
        /\ last' = Call("setModel", [model |-> m, previous |-> model], Ok(Nil))
        /\ UNCHANGED <<csrfToken, labels>>

\* Mutant: close() forgets to unbind the model.
Close_keepsModel ==
    /\ labels' = <<>>
    /\ last' = Call("close", [model |-> model, labels |-> labels], close)
    /\ UNCHANGED <<csrfToken, model>>

\* The call records the model and the labels it found.
Close ==
    /\ labels' = <<>>
    /\ model' = Nil
    /\ last' = Call("close", [model |-> model, labels |-> labels], close)
    /\ UNCHANGED csrfToken

Token ==
    /\ last' = Call("token", <<>>, token)
    /\ UNCHANGED <<csrfToken, model, labels>>

Label ==
    \E name \in Names, value \in {Nil, Str(<<"T">>)}, escapeHtml \in BOOLEAN :
        /\ Len(labels) < MaxLabels
        /\ isNil(value) \/ escapeHtml
        /\ labels' = Append(labels, name)
        /\ last' = Call("label", [name |-> name, value |-> value, escapeHtml |-> escapeHtml],
                        label(name, value, EmptyObject, escapeHtml))
        /\ UNCHANGED <<csrfToken, model>>

Input ==
    \E type \in {"text"}, name \in Names \cup {Nil}, value \in {Nil, vText},
       options \in IdOptions :
        /\ last' = Call("input", [type |-> type, name |-> name, value |-> value, options |-> options],
                        input(type, name, value, options))
        /\ UNCHANGED <<csrfToken, model, labels>>

Textarea ==
    \E name \in {nFirstName, nTags}, value \in {Nil, vText}, options \in TextareaOptions :
        /\ last' = Call("textarea", [name |-> name, value |-> value, options |-> options],
                        textarea(name, value, options))
        /\ UNCHANGED <<csrfToken, model, labels>>

Select ==
    \E name \in {nFirstName, nTags}, selected \in {Nil, Num(1)} :
        /\ last' = Call("select", [name |-> name, selected |-> selected],
                        select(name, Arr(<<>>), selected, EmptyObject))
        /\ UNCHANGED <<csrfToken, model, labels>>

SelectRange ==
    \E name \in {nFirstName}, begin \in 0..MaxRange, end \in 0..MaxRange :
        /\ begin <= end
        /\ last' = Call("selectRange", [name |-> name, begin |-> begin, end |-> end],
                        selectRange(name, begin, end, Nil, EmptyObject))
        /\ UNCHANGED <<csrfToken, model, labels>>

GetSelectOption ==
    \E display \in {Str(<<"d">>), Arr(<<Str(<<"d">>)>>)},
       selected \in {Nil, Num(1), Arr(<<Num(1)>>)} :
        /\ last' = Call("getSelectOption", [display |-> display, value |-> Num(1), selected |-> selected],
                        getSelectOption(display, Num(1), selected))
        /\ UNCHANGED <<csrfToken, model, labels>>

Checkbox ==
    \E name \in Names, value \in {Num(1), Num(2)}, checked \in {Nil, Bool(TRUE), Bool(FALSE)} :
        /\ last' = Call("checkbox", [name |-> name, value |-> value, checked |-> checked],
                        checkbox(name, value, checked, EmptyObject))
        /\ UNCHANGED <<csrfToken, model, labels>>

Radio ==
    \E name \in Names, value \in {Nil, Num(1)}, checked \in {Nil, Bool(TRUE)} :
        /\ last' = Call("radio", [name |-> name, value |-> value, checked |-> checked],
                        radio(name, value, checked, EmptyObject))
        /\ UNCHANGED <<csrfToken, model, labels>>

GetValueAttribute ==
    \E name \in Names \cup {Nil}, value \in {Nil, vText} :
        /\ last' = Call("getValueAttribute", [name |-> name, value |-> value],
                        getValueAttribute(name, value))
        /\ UNCHANGED <<csrfToken, model, labels>>

Next ==
    \/ Open
    \/ Model
    \/ SetModel
    \/ Close
    \/ Token
    \/ Label
    \/ Input
    \/ Textarea
    \/ Select
    \/ SelectRange
    \/ GetSelectOption
    \/ Checkbox
    \/ Radio
    \/ GetValueAttribute

Spec == Init /\ [][Next]_vars

(***************************************************************************)
(* Properties.                                                             *)
(***************************************************************************)
nMethod == Str(<<"_", "m", "e", "t", "h", "o", "d">>)
nToken == Str(<<"_", "t", "o", "k", "e", "n">>)
UNSUPPORTED == Str(<<"U", "N", "S", "U", "P", "P", "O", "R", "T", "E", "D">>)

\* The attributes of the single element a call rendered; an attribute that
\* is not rendered reads as Nil.
rendered == last.res.value[1].attrs

hasLabel(name) == \E i \in DOMAIN labels : labels[i] = name

\* C1: getValueAttribute(name, explicitValue) returns explicitValue when name
\* is absent; otherwise the old-input value for name when there is one and
\* name is not '_method'; otherwise explicitValue when given; otherwise the
\* bound model's value for name when a model is bound; otherwise none.
C1_ValueResolution ==
    last.op = "getValueAttribute" =>
        LET name == last.args.name
            value == last.args.value
        IN  /\ ok(last.res)
            /\ last.res.value =
                 IF isNil(name) THEN value
                 ELSE IF ~isNil(old(name)) /\ name # nMethod THEN old(name)
                 ELSE IF ~isNil(value) THEN value
                 ELSE IF ~isNil(model) THEN _getModelValueAttribute(name).value
                 ELSE Nil

\* A named field without explicit value took a value from the bound model.
C1_Witness ==
    /\ last.op = "getValueAttribute"
    /\ ~isNil(last.args.name)
    /\ isNil(last.args.value)
    /\ ~isNil(model)
    /\ ~isNil(last.res.value)

\* The logical method of an open() call: options.method, 'post' by default,
\* in upper case.
logicalMethod(options) ==
    IF "method" \in DOMAIN options /\ options["method"].v # <<>>
    THEN toUpperCase(options["method"].v)
    ELSE POST

isHidden(el, name) ==
    /\ el.tag = "input"
    /\ el.attrs["type"] = Str("hidden")
    /\ el.attrs["name"] = name

\* C2: the form tag's method is GET for the logical method GET and POST
\* otherwise; a hidden _method field with the upper-cased logical method is
\* appended iff that method is DELETE, PATCH or PUT; a hidden token field is
\* appended iff it is not GET; the _method field precedes the token field.
C2_OpenAppendage ==
    last.op \in {"open", "model"} =>
        LET m == logicalMethod(last.args.options)
            out == last.res.value
            methodAt == {i \in 2..Len(out) : isHidden(out[i], nMethod)}
            tokenAt == {i \in 2..Len(out) : isHidden(out[i], nToken)}
        IN  /\ ok(last.res)
            /\ out[1].tag = "form"
            /\ out[1].attrs["method"] = Str(IF m = GET THEN GET ELSE POST)
            /\ methodAt \cup tokenAt = 2..Len(out)
            /\ (methodAt # {}) <=> (m \in {<<"D", "E", "L", "E", "T", "E">>,
                                           <<"P", "A", "T", "C", "H">>, <<"P", "U", "T">>})
            /\ \A i \in methodAt : out[i].attrs["value"] = Str(m)
            /\ Cardinality(methodAt) <= 1 /\ Cardinality(tokenAt) <= 1
            /\ (tokenAt # {}) <=> (m # GET)
            /\ \A i \in methodAt : \A j \in tokenAt : i < j

\* open() with a lower-case spoofed method appended both hidden fields.
C2_Witness ==
    /\ last.op = "open"
    /\ "method" \in DOMAIN last.args.options
    /\ last.args.options["method"] = Str(<<"p", "a", "t", "c", "h">>)
    /\ Len(last.res.value) = 3
    /\ isHidden(last.res.value[2], nMethod)
    /\ isHidden(last.res.value[3], nToken)

\* C3: a checkbox renders unchecked when old input exists but has no entry
\* for name; otherwise, when neither old input nor a bound model (or no model
\* at all) holds a value for name, it is checked exactly when explicitChecked
\* is true; otherwise the value getValueAttribute resolves decides.
C3_CheckboxChecked ==
    last.op = "checkbox" =>
        LET name == last.args.name
            checked == last.args.checked
            noModelValue == isNil(model) \/ isNil(_getModelValueAttribute(name).value)
            posted == getValueAttribute(name, checked).value
            expected ==
                IF ~oldInputIsEmpty /\ isNil(old(name)) THEN FALSE
                ELSE IF isNil(old(name)) /\ noModelValue THEN checked = Bool(TRUE)
                ELSE IF posted.t = "arr"
                     THEN \E i \in DOMAIN posted.v : posted.v[i] = last.args.value
                ELSE castBoolean(posted)
        IN  /\ ok(last.res)
            /\ ~isNil(get(rendered, "checked")) <=> expected

\* C4: an explicit id always wins; without one, an input whose name has a
\* label renders id = name and any other input renders no id; label(name)
\* records name, and only close() removes a recorded name.
C4_LabelGivesId ==
    /\ [](last.op = "input" =>
            /\ ok(last.res)
            /\ IF ~isNil(get(last.args.options, "id"))
               THEN rendered["id"] = last.args.options["id"]
               ELSE IF hasLabel(last.args.name) THEN rendered["id"] = last.args.name
               ELSE isNil(get(rendered, "id")))
    /\ [][last'.op = "label" => (last'.args.name \in Range(labels'))]_vars
    /\ [][last'.op # "close" => (Range(labels) \subseteq Range(labels'))]_vars

\* An input without explicit id took its id from a label emitted earlier.
C4_Witness ==
    /\ last.op = "input"
    /\ "id" \notin DOMAIN last.args.options
    /\ hasLabel(last.args.name)
    /\ rendered["id"] = last.args.name

\* C5: after close() no model is bound and no label is recorded, close()
\* returns '</form>', and the field rendered next takes neither a default id
\* nor a model value.
C5_CloseResets ==
    /\ [](last.op = "close" =>
            /\ isNil(model)
            /\ labels = <<>>
            /\ last.res = Ok(<<El("/form", EmptyObject, <<>>)>>))
    /\ [][(last.op = "close" /\ last'.op = "input") =>
            /\ ok(last'.res)
            /\ isNil(get(last'.args.options, "id")) => isNil(get(rendered', "id"))
            /\ isNil(last'.args.value) => isNil(get(rendered', "value"))]_vars

\* close() was called with a model bound and a label recorded.
C5_Witness ==
    /\ last.op = "close"
    /\ ~isNil(last.args.model)
    /\ last.args.labels # <<>>
    /\ isNil(model)
    /\ labels = <<>>

\* C6: token() emits a hidden _token field whose value is the configured
\* token when one was configured and 'UNSUPPORTED' only when none was.
C6_TokenValue ==
    last.op = "token" =>
        /\ ok(last.res)
        /\ isHidden(last.res.value[1], nToken)
        /\ rendered["value"] = IF isNil(csrfToken) THEN UNSUPPORTED ELSE csrfToken

\* The key transform as the claim states it: '.' to '_', a trailing '[]'
\* removed, '[' to '.', ']' removed.
statedTransform(key) ==
    LET k1 == replaceAllChar(key, ".", "_")
        n == Len(k1)
        k2 == IF n >= 2 /\ SubSeq(k1, n - 1, n) = <<"[", "]">> THEN SubSeq(k1, 1, n - 2) ELSE k1
    IN  removeAllChar(replaceAllChar(k2, "[", "."), "]")

\* C7: without old input and explicit value, with a model bound, the value
\* resolved for name is the model's value under the transformed key
\* (getFormValue(key) when the model has it, plain key access otherwise).
C7_ModelValue ==
    (last.op = "getValueAttribute" /\ ~isNil(last.args.name) /\ isNil(last.args.value)
        /\ ~isNil(model)) =>
        LET key == statedTransform(last.args.name.v)
        IN  /\ ok(last.res)
            /\ last.res.value = IF model.hasGetFormValue THEN get(model.form, key)
                                ELSE get(model.props, key)

\* C8: no field-rendering operation raises an error because a value is
\* absent.
C8_AbsentValueNoError ==
    (/\ last.op \in {"input", "textarea", "select", "selectRange", "checkbox", "radio"}
     /\ CASE last.op \in {"input", "textarea"} -> isNil(last.args.value)
          [] last.op = "select" -> isNil(last.args.selected)
          [] last.op \in {"checkbox", "radio"} -> isNil(last.args.checked)
          [] OTHER -> TRUE
     /\ \/ isNil(model)
        \/ isNil(last.args.name)
        \/ isNil(_getModelValueAttribute(last.args.name).value)) =>
        ok(last.res)

\* C9: selectRange(name, begin, end) with begin <= end renders exactly the
\* options begin, begin + 1, ..., end in ascending order, keys and displays.
C9_SelectRangeOptions ==
    last.op = "selectRange" =>
        LET begin == last.args.begin
            end == last.args.end
        IN  /\ ok(last.res)
            /\ last.res.value[1].tag = "select"
            /\ Len(last.res.value[1].body) = end - begin + 1
            /\ \A i \in 1..(end - begin + 1) :
                  LET option == last.res.value[1].body[i]
                  IN  /\ option.tag = "option"
                      /\ option.attrs["value"] = Num(begin + i - 1)
                      /\ option.body.text = Num(begin + i - 1)

\* The humanized name as the claim states it: every underscore replaced by a
\* space, then the first letter of each word in upper case.
statedHumanize(name) ==
    LET s == replaceAllChar(name, "_", " ")
    IN  [i \in 1..Len(s) |->
            IF (i = 1 \/ ~isWordChar(s[i - 1])) THEN upperChar(s[i]) ELSE s[i]]

\* C10: label(name) displays the humanized name when no text is given and the
\* given text otherwise, and records name into the labels.
C10_LabelText ==
    last.op = "label" =>
        /\ ok(last.res)
        /\ hasLabel(last.args.name)
        /\ last.res.value[1].body.text =
              IF isNil(last.args.value) THEN Str(statedHumanize(last.args.name.v))
              ELSE last.args.value

\* C11: a radio is checked exactly when explicitChecked is true when neither
\* old input nor a bound model (or no model at all) holds a value for name,
\* and otherwise iff the value getValueAttribute(name) resolves equals the
\* radio's value; a radio without value uses name as its value.
C11_RadioChecked ==
    last.op = "radio" =>
        LET name == last.args.name
            value == IF isNil(last.args.value) THEN name ELSE last.args.value
            noModelValue == isNil(model) \/ isNil(_getModelValueAttribute(name).value)
            expected ==
                IF isNil(old(name)) /\ noModelValue THEN last.args.checked = Bool(TRUE)
                ELSE getValueAttribute(name, Nil).value = value
        IN  /\ ok(last.res)
            /\ rendered["value"] = value
            /\ ~isNil(get(rendered, "checked")) <=> expected

\* C12 as stated: after open() or model() the labels hold only names
\* labelled since that call, so right after the call they hold none.
C12_OpenResetsLabels ==
    last.op \in {"open", "model"} => labels = <<>>

\* C12 as amended: open() and model() leave the labels as they are; the
\* labels hold the names labelled since the last close().
C12_OpenKeepsLabels ==
    [][last'.op \in {"open", "model"} => labels' = labels]_vars

\* open() or model() returned with a label recorded before it.
C12_Witness ==
    /\ last.op \in {"open", "model"}
    /\ ok(last.res)
    /\ labels # <<>>

\* C13 as stated: no call changes the bound model from one object to a
\* different one.
C13_ModelNeverReplaced ==
    [][(~isNil(model) /\ ~isNil(model')) => model' = model]_vars

\* C13 as amended: the bound model is absent or one object, and only model(),
\* setModel() and close() change it: model() and setModel() bind the object
\* they are given, whatever was bound, and close() unbinds it.
C13_ModelChangesOnlyByBinding ==
    /\ [](model \in Models \cup {Nil})
    /\ [][model' # model => last'.op \in {"model", "setModel", "close"}]_vars
    /\ [][last'.op \in {"model", "setModel"} => model' = last'.args.model]_vars
    /\ [][last'.op = "close" => isNil(model')]_vars

\* setModel() or model() replaced a bound object by a different one.
C13_Witness ==
    /\ last.op \in {"model", "setModel"}
    /\ ~isNil(last.args.previous)
    /\ ~isNil(model)
    /\ model # last.args.previous

====
